---------------------------- MODULE Spec2Model ----------------------------
(***************************************************************************)
(* Model of src/src/simulator.ts: a fleet of simulated IoT devices that    *)
(* push telemetry to a collector on a fixed timer.                         *)
(*                                                                         *)
(* JavaScript numbers are IEEE-754 doubles.  The battery level is the only *)
(* number whose rounding decides anything, so it is modelled exactly: a    *)
(* level x is kept as the integer x * 2^54, written in three limbs of 20   *)
(* bits (TLC's integers are 32 bits wide).  Every level the program can    *)
(* hold (0..100, results of x - 0.35) is a multiple of 2^-54.              *)
(***************************************************************************)
EXTENDS Integers, Sequences, FiniteSets, TLC

VARIABLES
    registryFile,   \* devices.json as found on disk (input)
    env,            \* process.env: device id -> value of TOKEN_DEVICE_<id>
    pc,             \* position of the main script
    deviceConfigs,  \* parsed registry (sequence of device ids)
    cursor,         \* number of registry entries deviceConfigs.forEach has visited
    devices,        \* the Fleet: sequence of SimulatedDevice objects
    warned,         \* device ids named by the "No token found" warning
    timerArmed,     \* setInterval has been called
    ticks,          \* number of times the forEach(d => d.pushData()) body has run
    expiries,       \* number of times the interval timer has expired
    pushCalls,      \* per fleet index: number of pushData() calls started
    genCalls,       \* per fleet index: number of generateTelemetry() calls
    lastReading,    \* per fleet index: the payload generateTelemetry() returned last
    attempts,       \* the pushData() calls made so far, with the state of each
    healthResp,     \* the last response of GET /health
    initLevel       \* per fleet index: the level the constructor drew (history)

vars == << registryFile, env, pc, deviceConfigs, cursor, devices, warned,
           timerArmed, ticks, expiries, pushCalls, genCalls, lastReading,
           attempts, healthResp, initLevel >>

-----------------------------------------------------------------------------
(* Bounds of the model *)

\* Timer expiries plus the startup run explored by Spec.
MaxTicks == 2

\* generateTelemetry() calls explored by SpecBattery (two full battery cycles).
MaxCalls == 600

\* Device ids run over -MaxId..MaxId in the construction model.
MaxId == 30

\* Calls of generateTelemetry() per device in the two-device models.
MaxGen == 2

-----------------------------------------------------------------------------
(* IEEE-754 double arithmetic on battery levels *)

Limb == 2^20

\* The number h*2^40 + m*2^20 + l, in units of 2^-54, with 0 <= m, l < Limb.
Norm(h, m, l) ==
    LET m1 == m + (l \div Limb)
    IN  [h |-> h + (m1 \div Limb), m |-> m1 % Limb, l |-> l % Limb]

\* The double with integer value k (0 <= k <= 100): k * 2^54.
FromInt(k) == [h |-> k * 2^14, m |-> 0, l |-> 0]

\* The literal 0.35 is the double 6305039478318694 * 2^-54.
Drain == [h |-> 5734, m |-> 419430, l |-> 419430]

\* The literal 100.
Full == FromInt(100)

\* x <= 0
LeqZero(x) == x.h < 0 \/ (x.h = 0 /\ x.m = 0 /\ x.l = 0)

\* a <= b
Leq(a, b) ==
    \/ a.h < b.h
    \/ a.h = b.h /\ a.m < b.m
    \/ a.h = b.h /\ a.m = b.m /\ a.l <= b.l

\* Binary exponent of the unit in the last place of x, in units of 2^-54:
\* a double in [2^e, 2^(e+1)) has ulp 2^(e-52) = 2^(e+2) * 2^-54; values below
\* 1/2 (in particular every non-positive difference) are exact multiples.
UlpExp(x) ==
    IF x.h < 2^13 THEN 0
    ELSE CHOOSE s \in 1..8 : 2^(12 + s) <= x.h /\ x.h < 2^(13 + s)

\* The element of a singleton.  Operators below bind an intermediate result as
\* the element of a singleton, which TLC evaluates once, also inside ENABLED.
The(S) == CHOOSE y \in S : TRUE

\* Round an exact value to the nearest double, ties to even.
RoundToDouble(x) ==
    The({ LET u == 2^UlpExp(v)
              r == v.l % u
              odd == (v.l \div u) % 2 = 1
              up == 2 * r > u \/ (2 * r = u /\ odd)
          IN  Norm(v.h, v.m, v.l - r + (IF up THEN u ELSE 0)) : v \in {x} })

\* a - b in double arithmetic.
FloatSub(a, b) == RoundToDouble(Norm(a.h - b.h, a.m - b.m, a.l - b.l))

\* Number.prototype.toFixed(1) of x >= 0, as the integer n of tenths it prints:
\* the n with n/10 nearest to the exact value of x, the larger n on a tie,
\* that is floor(10x + 1/2) = (10*N + 2^53) div 2^54.
ToFixed1(x) == Norm(10 * x.h + 2^13, 10 * x.m, 10 * x.l).h \div 2^14

\* JavaScript's % : the remainder takes the sign of the dividend.
JsRem(a, n) == IF a >= 0 THEN a % n ELSE -((-a) % n)


-----------------------------------------------------------------------------
(* class SimulatedDevice *)

\* A DeviceConfig is modelled by its deviceId; serial, name and location are
\* carried unchanged and only printed.  The temperature and humidity draws and
\* the timestamp of a payload change no state and are left out of the payload.

\* SimulatedDevice seeding the base values from the random draw as well.
SimulatedDevice_RandomSeed(config, token, r) ==
    [ config         |-> config,
      token          |-> token,
      baseTemp       |-> 20 + JsRem(config.deviceId + r, 10),
      baseHum        |-> 40 + JsRem(config.deviceId + r, 15),
      currentBattery |-> FromInt(r) ]

\* new SimulatedDevice(config, token), r being Math.floor(Math.random() * 100).
SimulatedDevice(config, token, r) ==
    [ config         |-> config,
      token          |-> token,
      baseTemp       |-> 20 + JsRem(config.deviceId, 10),
      baseHum        |-> 40 + JsRem(config.deviceId, 15),
      currentBattery |-> FromInt(r) ]

\* this.currentBattery -= 0.35
Decrement(b) == FloatSub(b, Drain)

\* BatteryStep without the wraparound.
BatteryStep_NoReset(b) == Decrement(b)

\* BatteryStep with the drain applied to the reset value.
BatteryStep_DrainAfterReset(b) ==
    The({ IF LeqZero(d) THEN Decrement(Full) ELSE d : d \in {Decrement(b)} })

\* this.currentBattery -= 0.35; if (this.currentBattery <= 0) this.currentBattery = 100;
BatteryStep(b) ==
    The({ IF LeqZero(d) THEN Full ELSE d : d \in {Decrement(b)} })

\* battery: parseFloat(this.currentBattery.toFixed(1)), held as tenths.
ReportedBattery(b) == ToFixed1(b)

\* generateTelemetry(): the device after the call and the payload returned.
generateTelemetry(d) ==
    The({ [ device  |-> [d EXCEPT !.currentBattery = b],
            payload |-> [ deviceId |-> d.config.deviceId,
                          battery  |-> ReportedBattery(b),
                          firmware |-> "1.0.4",
                          status   |-> "ok" ] ] :
          b \in {BatteryStep(d.currentBattery)} })

NoReading == [deviceId |-> 0, battery |-> 0, firmware |-> "", status |-> "none"]

\* NewAttempt sending a token shared by the whole module: that of the device
\* constructed last.
NewAttempt_SharedToken(d, i, t) ==
    LET data == generateTelemetry(d).payload
    IN  [ dev      |-> i,
          tick     |-> t,
          deviceId |-> data.deviceId,
          battery  |-> data.battery,
          header   |-> devices[Len(devices)].token,
          promise  |-> "pending",
          log      |-> "none" ]

\* The part of pushData() that runs synchronously in its caller: the payload is
\* generated and axios.post is called with it and the device's token.  i is
\* the device's index in the Fleet, t the tick that makes the call.
NewAttempt(d, i, t) ==
    LET data == generateTelemetry(d).payload
    IN  [ dev      |-> i,
          tick     |-> t,
          deviceId |-> data.deviceId,
          battery  |-> data.battery,
          header   |-> d.token,
          promise  |-> "pending",
          log      |-> "none" ]

\* What the HTTP POST can come to.  A request that is never answered comes to
\* nothing: its attempt stays pending.
Outcomes == {"2xx", "non2xx", "transport", "timeout"}

\* SettleAttempt without the catch block: a rejection of the POST rejects the
\* promise of pushData() and nothing is logged.
SettleAttempt_NoCatch(a, outcome) ==
    IF outcome = "2xx"
    THEN [a EXCEPT !.promise = "fulfilled", !.log = "sent"]
    ELSE [a EXCEPT !.promise = "rejected"]

\* SettleAttempt retrying: a failed POST is logged and sent again.
SettleAttempt_Retry(a, outcome) ==
    IF outcome = "2xx"
    THEN [a EXCEPT !.promise = "fulfilled", !.log = "sent"]
    ELSE [a EXCEPT !.promise = "pending", !.log = "error"]

\* The rest of pushData(), run when the POST settles: axios resolves on a 2xx
\* response and rejects otherwise; the catch block logs the rejection, so the
\* async function returns normally either way.
SettleAttempt(a, outcome) ==
    IF outcome = "2xx"
    THEN [a EXCEPT !.promise = "fulfilled", !.log = "sent"]
    ELSE [a EXCEPT !.promise = "fulfilled", !.log = "error"]

-----------------------------------------------------------------------------
(* Inputs: the registry file and the environment *)

\* Device ids the registry files of the model name.
RegistryIds == {7, 12, 25}

Config(id) == [deviceId |-> id]

\* devices.json: absent, not JSON, or an array of device configurations.
RegistryFiles ==
    { [kind |-> "missing", entries |-> << >>],
      [kind |-> "unparseable", entries |-> << >>] }
    \cup
    { [kind |-> "ok", entries |-> e] :
        e \in { << >>,
                << Config(7) >>,
                << Config(12), Config(7) >>,
                << Config(7), Config(7) >>,
                << Config(7), Config(12), Config(25) >> } }

\* process.env[`TOKEN_DEVICE_${id}`]: undefined, the empty string, or a token.
Unset == [set |-> FALSE, value |-> ""]
Empty == [set |-> TRUE, value |-> ""]
TokenOf(id) ==
    [set |-> TRUE,
     value |-> CASE id = 7 -> "abc123" [] id = 12 -> "tok12" [] OTHER -> "tok25"]

IdsOf(file) == {file.entries[k].deviceId : k \in 1..Len(file.entries)}

\* Environments: a variable of a device the registry does not name is never
\* read, and is left unset.
Envs(file) ==
    { e \in [RegistryIds -> {Unset, Empty} \cup {TokenOf(id) : id \in RegistryIds}] :
        \A id \in RegistryIds :
            /\ e[id] \in {Unset, Empty, TokenOf(id)}
            /\ id \notin IdsOf(file) => e[id] = Unset }

\* Values of Math.floor(Math.random() * 100) the fleet model draws (the battery
\* model below draws all of them).
FleetLevels == {0}

\* Every value of Math.floor(Math.random() * 100).
AllLevels == 0..99

-----------------------------------------------------------------------------
(* The main script *)

NoHealth == [status |-> "none", activeDevices |-> 0]

Init ==
    /\ registryFile \in RegistryFiles
    /\ env \in Envs(registryFile)
    /\ pc = "load"
    /\ deviceConfigs = << >>
    /\ cursor = 0
    /\ devices = << >>
    /\ warned = {}
    /\ timerArmed = FALSE
    /\ ticks = 0
    /\ expiries = 0
    /\ pushCalls = << >>
    /\ genCalls = << >>
    /\ lastReading = << >>
    /\ attempts = {}
    /\ healthResp = NoHealth
    /\ initLevel = << >>

\* LoadRegistry catching the error and going on with an empty registry.
LoadRegistry_DefaultsToEmpty ==
    /\ pc = "load"
    /\ deviceConfigs' = registryFile.entries
    /\ pc' = "instantiate"
    /\ UNCHANGED << initLevel, registryFile, env, cursor, devices, warned, timerArmed,
                    ticks, expiries, pushCalls, genCalls, lastReading, attempts,
                    healthResp >>

\* fs.readFileSync and JSON.parse: either throws at the top level of the
\* module, which ends the process before anything else runs.
LoadRegistry ==
    /\ pc = "load"
    /\ IF registryFile.kind = "ok"
       THEN /\ deviceConfigs' = registryFile.entries
            /\ pc' = "instantiate"
       ELSE /\ deviceConfigs' = deviceConfigs
            /\ pc' = "crashed"
    /\ UNCHANGED << initLevel, registryFile, env, cursor, devices, warned, timerArmed, ticks,
                    expiries, pushCalls, genCalls, lastReading, attempts, healthResp >>

\* NoToken testing for undefined only.
NoToken_OnlyUndefined(tok) == ~tok.set

\* !token
NoToken(tok) == ~tok.set \/ tok.value = ""

\* One iteration of deviceConfigs.forEach(config => ...).
Instantiate(levels) ==
    /\ pc = "instantiate"
    /\ cursor < Len(deviceConfigs)
    /\ cursor' = cursor + 1
    /\ LET config == deviceConfigs[cursor + 1]
           token == env[config.deviceId]
       IN  IF NoToken(token)
           THEN /\ warned' = warned \cup {config.deviceId}
                /\ UNCHANGED << devices, pushCalls, genCalls, lastReading, initLevel >>
           ELSE /\ \E r \in levels :
                      /\ devices' = Append(devices, SimulatedDevice(config, token.value, r))
                      /\ initLevel' = Append(initLevel, FromInt(r))
                /\ pushCalls' = Append(pushCalls, 0)
                /\ genCalls' = Append(genCalls, 0)
                /\ lastReading' = Append(lastReading, NoReading)
                /\ UNCHANGED warned
    /\ UNCHANGED << registryFile, env, pc, deviceConfigs, timerArmed, ticks, expiries,
                    attempts, healthResp >>

\* The forEach has visited every entry: the script goes on to app.listen.
Listen ==
    /\ pc = "instantiate"
    /\ cursor = Len(deviceConfigs)
    /\ pc' = "listen"
    /\ UNCHANGED << initLevel, registryFile, env, deviceConfigs, cursor, devices, warned,
                    timerArmed, ticks, expiries, pushCalls, genCalls, lastReading,
                    attempts, healthResp >>

\* ForEachPush skipping every device that still has an attempt in flight.
ForEachPush_SkipBusy(devs, t) ==
    LET busy(i) == \E a \in attempts : a.dev = i /\ a.promise = "pending"
    IN  [ devices  |-> [i \in 1..Len(devs) |->
                          IF busy(i) THEN devs[i] ELSE generateTelemetry(devs[i]).device],
          readings |-> [i \in 1..Len(devs) |-> generateTelemetry(devs[i]).payload],
          started  |-> {NewAttempt(devs[i], i, t) : i \in {j \in 1..Len(devs) : ~busy(j)}} ]

\* ForEachPush removing from the Fleet every device with a failed delivery.
ForEachPush_DropsFailed(devs, t) ==
    LET failed(i) == \E a \in attempts : a.dev = i /\ a.log = "error"
        pushed == [i \in 1..Len(devs) |-> generateTelemetry(devs[i]).device]
    IN  [ devices  |-> SelectSeq(pushed, LAMBDA d :
                          \A i \in 1..Len(devs) : failed(i) => pushed[i] # d),
          readings |-> [i \in 1..Len(devs) |-> generateTelemetry(devs[i]).payload],
          started  |-> {NewAttempt(devs[i], i, t) : i \in 1..Len(devs)} ]

\* ForEachPush with generateTelemetry() calls of one device interleaving: the
\* call made while an earlier pushData() of the device is still in flight
\* loses its write of currentBattery.
ForEachPush_LostUpdate(devs, t) ==
    LET busy(i) == \E a \in attempts : a.dev = i /\ a.promise = "pending"
    IN  [ devices  |-> [i \in 1..Len(devs) |->
                          IF busy(i) THEN devs[i] ELSE generateTelemetry(devs[i]).device],
          readings |-> [i \in 1..Len(devs) |-> generateTelemetry(devs[i]).payload],
          started  |-> {NewAttempt(devs[i], i, t) : i \in 1..Len(devs)} ]

\* devices.forEach(d => d.pushData()) run as tick t: every device of the Fleet
\* generates a payload and starts its POST; no call waits for another.
ForEachPush(devs, t) ==
    [ devices  |-> [i \in 1..Len(devs) |-> generateTelemetry(devs[i]).device],
      readings |-> [i \in 1..Len(devs) |-> generateTelemetry(devs[i]).payload],
      started  |-> {NewAttempt(devs[i], i, t) : i \in 1..Len(devs)} ]

CountFor(as, i) == Cardinality({a \in as : a.dev = i})

\* The effect of one forEach on the state.
Tick ==
    LET r == ForEachPush(devices, ticks + 1)
    IN  /\ devices' = r.devices
        /\ lastReading' = [i \in 1..Len(devices) |->
                              IF CountFor(r.started, i) > 0 THEN r.readings[i]
                              ELSE lastReading[i]]
        /\ attempts' = attempts \cup r.started
        /\ ticks' = ticks + 1
        /\ pushCalls' = [i \in 1..Len(devices) |-> pushCalls[i] + CountFor(r.started, i)]
        /\ genCalls' = [i \in 1..Len(devices) |-> genCalls[i] + CountFor(r.started, i)]

\* StartSimulation without the immediate first run.
StartSimulation_NoFirstRun ==
    /\ pc = "listen"
    /\ timerArmed' = TRUE
    /\ pc' = "running"
    /\ UNCHANGED << initLevel, registryFile, env, deviceConfigs, cursor, devices, warned, ticks,
                    expiries, pushCalls, genCalls, lastReading, attempts, healthResp >>

\* The callback of app.listen: startSimulation() runs the first forEach at
\* once and then calls setInterval.
StartSimulation ==
    /\ pc = "listen"
    /\ Tick
    /\ timerArmed' = TRUE
    /\ pc' = "running"
    /\ UNCHANGED << initLevel, registryFile, env, deviceConfigs, cursor, warned, expiries,
                    healthResp >>

\* TimerReady with ticks mutually exclusive: no tick while an attempt is in flight.
TimerReady_Mutex == timerArmed /\ \A a \in attempts : a.promise # "pending"

\* When the interval callback may run: whenever the timer is armed.  Nothing
\* in it looks at the attempts in flight.
TimerReady == timerArmed

\* The interval timer expires and its callback runs the forEach.
TimerTick ==
    /\ pc = "running"
    /\ TimerReady
    /\ ticks < MaxTicks
    /\ expiries' = expiries + 1
    /\ Tick
    /\ UNCHANGED << initLevel, registryFile, env, pc, deviceConfigs, cursor, warned, timerArmed,
                    healthResp >>

\* Settle failing fast: a failed POST also fails the pending attempts of the
\* other devices in the same tick.
Settle_FailFast ==
    /\ pc = "running"
    /\ \E a \in attempts : \E outcome \in Outcomes :
          /\ a.promise = "pending"
          /\ LET hit == IF outcome = "2xx" THEN {a}
                        ELSE {b \in attempts : b.tick = a.tick /\ b.promise = "pending"}
             IN  attempts' = (attempts \ hit) \cup {SettleAttempt(b, outcome) : b \in hit}
    /\ UNCHANGED << initLevel, registryFile, env, pc, deviceConfigs, cursor, devices, warned,
                    timerArmed, ticks, expiries, pushCalls, genCalls, lastReading,
                    healthResp >>

\* Settle draining the battery once more when the delivery succeeded.
Settle_DrainsOnSuccess ==
    /\ pc = "running"
    /\ \E a \in attempts : \E outcome \in Outcomes :
          /\ a.promise = "pending"
          /\ attempts' = (attempts \ {a}) \cup {SettleAttempt(a, outcome)}
          /\ devices' = IF outcome = "2xx"
                        THEN [devices EXCEPT ![a.dev].currentBattery = BatteryStep(@)]
                        ELSE devices
    /\ UNCHANGED << initLevel, registryFile, env, pc, deviceConfigs, cursor, warned,
                    timerArmed, ticks, expiries, pushCalls, genCalls, lastReading,
                    healthResp >>

\* The POST of a pending attempt settles and pushData() resumes after its await.
Settle ==
    /\ pc \in {"running", "unit"}
    /\ \E a \in attempts : \E outcome \in Outcomes :
          /\ a.promise = "pending"
          /\ attempts' = (attempts \ {a}) \cup {SettleAttempt(a, outcome)}
    /\ UNCHANGED << initLevel, registryFile, env, pc, deviceConfigs, cursor, devices, warned,
                    timerArmed, ticks, expiries, pushCalls, genCalls, lastReading,
                    healthResp >>

\* HealthBody counting the registry entries instead of the Fleet.
HealthBody_CountsRegistry(devs) ==
    [status |-> "running", activeDevices |-> Len(deviceConfigs)]

\* res.json({ status: 'running', activeDevices: devices.length })
HealthBody(devs) == [status |-> "running", activeDevices |-> Len(devs)]

\* GET /health is served once the server listens.
Health ==
    /\ pc = "running"
    /\ healthResp' = HealthBody(devices)
    /\ UNCHANGED << initLevel, registryFile, env, pc, deviceConfigs, cursor, devices, warned,
                    timerArmed, ticks, expiries, pushCalls, genCalls, lastReading,
                    attempts >>

Next ==
    \/ LoadRegistry
    \/ Instantiate(FleetLevels)
    \/ Listen
    \/ StartSimulation
    \/ TimerTick
    \/ Settle
    \/ Health

Spec == Init /\ [][Next]_vars

-----------------------------------------------------------------------------
(* The battery of one device under repeated generateTelemetry() calls *)

\* A device as its constructor leaves it, for every id of the registry and
\* every initial level the constructor can draw.
InitBattery ==
    /\ \E id \in RegistryIds :
          /\ registryFile = [kind |-> "ok", entries |-> << Config(id) >>]
          /\ env = [j \in RegistryIds |-> IF j = id THEN TokenOf(id) ELSE Unset]
          /\ deviceConfigs = << Config(id) >>
          /\ \E r \in AllLevels :
                devices = << SimulatedDevice(Config(id), TokenOf(id).value, r) >>
    /\ pc = "unit"
    /\ cursor = 1
    /\ warned = {}
    /\ timerArmed = FALSE
    /\ ticks = 0
    /\ expiries = 0
    /\ pushCalls = << 0 >>
    /\ genCalls = << 0 >>
    /\ lastReading = << NoReading >>
    /\ attempts = {}
    /\ healthResp = NoHealth
    /\ initLevel = << devices[1].currentBattery >>

\* One call of devices[i].generateTelemetry(), of at most n.
GenerateWithin(i, n) ==
    /\ pc = "unit"
    /\ genCalls[i] < n
    /\ LET g == generateTelemetry(devices[i])
       IN  /\ devices' = [devices EXCEPT ![i] = g.device]
           /\ lastReading' = [lastReading EXCEPT ![i] = g.payload]
    /\ genCalls' = [genCalls EXCEPT ![i] = @ + 1]
    /\ UNCHANGED << initLevel, registryFile, env, pc, deviceConfigs, cursor, warned, timerArmed,
                    ticks, expiries, pushCalls, attempts, healthResp >>

Generate(i) == GenerateWithin(i, MaxCalls)

NextBattery == \E i \in 1..Len(devices) : Generate(i)

SpecBattery == InitBattery /\ [][NextBattery]_vars

-----------------------------------------------------------------------------
(* Construction on its own: new SimulatedDevice(config, token), twice with
   the same configuration *)

\* deviceId: number, as integers the registry can hold.
DeviceIds == (-MaxId)..MaxId

\* Values of Math.floor(Math.random() * 100) drawn in the two-device models: one
\* that resets on the first call and one that does not.
PairLevels == {0, 7}

InitIdentity ==
    /\ registryFile = [kind |-> "ok", entries |-> << >>]
    /\ env = [j \in RegistryIds |-> Unset]
    /\ deviceConfigs = << >>
    /\ \E N \in DeviceIds : \E r1 \in PairLevels : \E r2 \in PairLevels :
          devices = << SimulatedDevice(Config(N), "abc123", r1),
                       SimulatedDevice(Config(N), "abc123", r2) >>
    /\ pc = "unit"
    /\ cursor = 1
    /\ warned = {}
    /\ timerArmed = FALSE
    /\ ticks = 0
    /\ expiries = 0
    /\ pushCalls = << 0, 0 >>
    /\ genCalls = << 0, 0 >>
    /\ lastReading = << NoReading, NoReading >>
    /\ attempts = {}
    /\ healthResp = NoHealth
    /\ initLevel = << devices[1].currentBattery, devices[2].currentBattery >>

NextIdentity == \E i \in 1..Len(devices) : GenerateWithin(i, MaxGen)

SpecIdentity == InitIdentity /\ [][NextIdentity]_vars

-----------------------------------------------------------------------------
(* Two devices driven one call at a time: generateTelemetry() and pushData()
   of either, and the settling of the POSTs *)

InitPair ==
    /\ registryFile = [kind |-> "ok", entries |-> << Config(7), Config(12) >>]
    /\ env = [j \in RegistryIds |-> IF j \in {7, 12} THEN TokenOf(j) ELSE Unset]
    /\ deviceConfigs = << Config(7), Config(12) >>
    /\ \E r1 \in PairLevels : \E r2 \in PairLevels :
          devices = << SimulatedDevice(Config(7), TokenOf(7).value, r1),
                       SimulatedDevice(Config(12), TokenOf(12).value, r2) >>
    /\ pc = "unit"
    /\ cursor = 1
    /\ warned = {}
    /\ timerArmed = FALSE
    /\ ticks = 0
    /\ expiries = 0
    /\ pushCalls = << 0, 0 >>
    /\ genCalls = << 0, 0 >>
    /\ lastReading = << NoReading, NoReading >>
    /\ attempts = {}
    /\ healthResp = NoHealth
    /\ initLevel = << devices[1].currentBattery, devices[2].currentBattery >>

\* PushOne with currentBattery held once for the class, not per object.
PushOne_SharedBattery(i) ==
    /\ pc = "unit"
    /\ genCalls[i] < MaxGen
    /\ LET g == generateTelemetry(devices[i])
       IN  /\ devices' = [j \in 1..Len(devices) |->
                            [devices[j] EXCEPT !.currentBattery = g.device.currentBattery]]
           /\ lastReading' = [lastReading EXCEPT ![i] = g.payload]
    /\ attempts' = attempts \cup {NewAttempt(devices[i], i, pushCalls[i] + 1)}
    /\ genCalls' = [genCalls EXCEPT ![i] = @ + 1]
    /\ pushCalls' = [pushCalls EXCEPT ![i] = @ + 1]
    /\ UNCHANGED << initLevel, registryFile, env, pc, deviceConfigs, cursor, warned, timerArmed,
                    ticks, expiries, healthResp >>

\* One call of devices[i].pushData(), up to its await: the reading is
\* generated and the POST started.  The attempt is numbered by the device's
\* own count of pushData() calls.
PushOne(i) ==
    /\ pc = "unit"
    /\ genCalls[i] < MaxGen
    /\ LET g == generateTelemetry(devices[i])
       IN  /\ devices' = [devices EXCEPT ![i] = g.device]
           /\ lastReading' = [lastReading EXCEPT ![i] = g.payload]
    /\ attempts' = attempts \cup {NewAttempt(devices[i], i, pushCalls[i] + 1)}
    /\ genCalls' = [genCalls EXCEPT ![i] = @ + 1]
    /\ pushCalls' = [pushCalls EXCEPT ![i] = @ + 1]
    /\ UNCHANGED << initLevel, registryFile, env, pc, deviceConfigs, cursor, warned, timerArmed,
                    ticks, expiries, healthResp >>

NextPair ==
    \/ \E i \in 1..Len(devices) : GenerateWithin(i, MaxGen)
    \/ \E i \in 1..Len(devices) : PushOne(i)
    \/ Settle

SpecPair == InitPair /\ [][NextPair]_vars

-----------------------------------------------------------------------------
(* Vocabulary of the properties *)

Fleet == 1..Len(devices)

\* The startup construction has finished.
Constructed == pc \in {"listen", "running"}

AttemptsOf(i, t) == {a \in attempts : a.dev = i /\ a.tick = t}

Pending == {a \in attempts : a.promise = "pending"}

\* The attempt a as it is once the collector has accepted it.
Accepted(a) == [a EXCEPT !.promise = "fulfilled", !.log = "sent"]

\* Membership and order of the Fleet: who the devices are, not what they hold.
Members == [i \in Fleet |-> [config |-> devices[i].config, token |-> devices[i].token]]

\* A usable credential exists for device id.
Resolved(id) == env[id].set /\ env[id].value # ""

RegistryIndex == 1..Len(registryFile.entries)

\* The registry entries with a credential, in registry order.
RECURSIVE WithCredential(_)
WithCredential(entries) ==
    IF entries = << >> THEN << >>
    ELSE IF Resolved(Head(entries).deviceId)
         THEN << Head(entries) >> \o WithCredential(Tail(entries))
         ELSE WithCredential(Tail(entries))

-----------------------------------------------------------------------------
(* C1 *)

\* C1: after t ticks (the startup run plus t-1 timer expiries) every device of
\* the Fleet has had exactly t delivery attempts started, one per tick,
\* however the earlier attempts ended and whether or not they are still in
\* flight.
C1_OneAttemptPerDevicePerTick ==
    \A i \in Fleet :
        /\ pushCalls[i] = ticks
        /\ \A t \in 1..ticks : Cardinality(AttemptsOf(i, t)) = 1
        /\ \A a \in attempts : a.tick \in 1..ticks /\ a.dev \in Fleet

\* Two ticks over a fleet of three with an earlier attempt failed and another
\* still in flight.
C1_Witness ==
    /\ ticks = 2
    /\ Len(devices) = 3
    /\ \E a \in AttemptsOf(1, 1) : a.log = "error"
    /\ \E a \in AttemptsOf(2, 1) : a.promise = "pending"
    /\ pushCalls[3] = 2

-----------------------------------------------------------------------------
(* C2 *)

\* C2: tick() runs once at startup, after the Fleet is fully constructed and
\* before the timer is armed, and afterwards exactly once per timer expiry:
\* the number of ticks is always one plus the number of expiries.
C2_ImmediateThenPeriodic ==
    /\ ticks > 0 => pc = "running" /\ cursor = Len(deviceConfigs)
    /\ timerArmed <=> pc = "running"
    /\ ticks = (IF pc = "running" THEN 1 ELSE 0) + expiries
    /\ \A a \in attempts : a.tick = 1 \/ expiries >= a.tick - 1

\* The timer has expired once after the startup run.
C2_Witness ==
    /\ pc = "running"
    /\ expiries = 1
    /\ ticks = 2
    /\ Len(devices) >= 1

-----------------------------------------------------------------------------
(* C3 *)

\* C3: pushData() never fails visibly: whatever the POST comes to, the promise
\* of the call is never rejected, a call that has ended has logged either its
\* success or its failure, and every tick has dispatched every device.
C3_PushNeverFails ==
    /\ \A a \in attempts :
          /\ a.promise \in {"pending", "fulfilled"}
          /\ a.promise = "fulfilled" <=> a.log \in {"sent", "error"}
          /\ a.promise = "pending" <=> a.log = "none"
    /\ \A i \in Fleet : \A t \in 1..ticks : AttemptsOf(i, t) # {}
    /\ ticks > 0 => pc = "running"

\* A failed delivery was absorbed and the next tick ran all the same.
C3_Witness ==
    /\ ticks = 2
    /\ \E a \in attempts : a.tick = 1 /\ a.log = "error" /\ a.promise = "fulfilled"
    /\ \E a \in attempts : a.tick = 2 /\ a.log = "sent"

-----------------------------------------------------------------------------
(* C4 *)

\* A step leaves the attempts of all devices but one as they were.
OneDeviceSettles ==
    \A a \in attempts : \A b \in attempts :
        (a \notin attempts' /\ b \notin attempts') => a.dev = b.dev

\* C4: isolation within a tick.  Whenever a device has an attempt in a tick,
\* every other device has one in the same tick; a pending attempt can be
\* accepted and logged as sent whatever became of its siblings; and no step
\* changes attempts of two devices, nor an attempt that has already ended.
C4_Isolation ==
    /\ [](\A a \in attempts : \A j \in Fleet : AttemptsOf(j, a.tick) # {})
    /\ [](\A b \in Pending :
             ENABLED (Settle /\ attempts' = (attempts \ {b}) \cup {Accepted(b)}))
    /\ [][ /\ OneDeviceSettles
           /\ \A a \in attempts : a.promise = "fulfilled" => a \in attempts' ]_vars

\* In one tick of a fleet of three, one attempt failed and the other two were
\* logged as sent.
C4_Witness ==
    /\ Len(devices) = 3
    /\ \E t \in 1..ticks :
          /\ \E a \in AttemptsOf(2, t) : a.log = "error"
          /\ \E a \in AttemptsOf(1, t) : a.log = "sent"
          /\ \E a \in AttemptsOf(3, t) : a.log = "sent"

-----------------------------------------------------------------------------
(* C5 *)

\* C5: the scheduler is never blocked by deliveries.  While running, the next
\* timer tick can fire whatever is in flight; a tick leaves every earlier
\* attempt as it found it and returns with all of its own attempts pending.
C5_SchedulerNeverBlocked ==
    /\ []((pc = "running" /\ ticks < MaxTicks) => ENABLED TimerTick)
    /\ [][ ticks' = ticks + 1 =>
             /\ \A a \in attempts : a \in attempts'
             /\ \A a \in attempts' \ attempts : a.promise = "pending" /\ a.tick = ticks'
             /\ \A i \in Fleet : \E a \in attempts' \ attempts : a.dev = i ]_vars

\* Attempts of two ticks of the same device are in flight together.
C5_Witness ==
    /\ ticks = 2
    /\ \E i \in Fleet :
          /\ \E a \in AttemptsOf(i, 1) : a.promise = "pending"
          /\ \E a \in AttemptsOf(i, 2) : a.promise = "pending"

-----------------------------------------------------------------------------
(* C6 *)

\* C6: a registry device without a resolvable credential is never in the
\* Fleet, never counted by GET /health and never the subject of a delivery
\* attempt, while the devices with credentials are all included, in registry
\* order.
C6_Exclusion ==
    /\ \A k \in RegistryIndex :
          LET id == registryFile.entries[k].deviceId
          IN  ~Resolved(id) =>
                /\ \A i \in Fleet : devices[i].config.deviceId # id
                /\ \A a \in attempts : a.deviceId # id
    /\ Constructed =>
          [i \in Fleet |-> devices[i].config] = WithCredential(registryFile.entries)
    /\ healthResp.status = "running" =>
          healthResp.activeDevices = Len(WithCredential(registryFile.entries))

\* A registry of two devices, one without a credential, after two ticks and a
\* health query.
C6_Witness ==
    /\ ticks = 2
    /\ Len(registryFile.entries) = 2
    /\ Len(devices) = 1
    /\ \E k \in RegistryIndex : ~Resolved(registryFile.entries[k].deviceId)
    /\ healthResp.status = "running"

-----------------------------------------------------------------------------
(* C7 *)

\* C7: once the startup construction has finished, no step changes the
\* membership, the size or the order of the Fleet.
C7_FleetFixed == [][Constructed => (Constructed' /\ Members' = Members)]_vars

\* A fleet of distinct devices after ticks, a failed delivery and a health
\* query.
C7_Witness ==
    /\ ticks = 2
    /\ Len(devices) = 3
    /\ \E a \in attempts : a.log = "error"
    /\ healthResp.status = "running"

-----------------------------------------------------------------------------
(* C8 *)

\* C8: after every generateTelemetry() call, from every initial level the
\* constructor can draw, the stored level satisfies 0 < currentBattery <= 100.
C8_BatteryInRange ==
    \A i \in Fleet :
        genCalls[i] > 0 =>
            /\ ~LeqZero(devices[i].currentBattery)
            /\ Leq(devices[i].currentBattery, Full)

\* A call has left the level just above zero (below 2^-34).
C8_Witness ==
    /\ genCalls[1] > 0
    /\ devices[1].currentBattery.h = 0
    /\ devices[1].currentBattery.m = 0
    /\ devices[1].currentBattery.l > 0

-----------------------------------------------------------------------------
(* C9 *)

\* C9: the battery field of every payload generateTelemetry() returns (the
\* stored level printed with one decimal) satisfies 0 < battery <= 100; a
\* payload never reports 0.0.  The field is held in tenths.
C9_ReportedBatteryInRange ==
    \A i \in Fleet :
        lastReading[i].status = "ok" =>
            /\ lastReading[i].battery > 0
            /\ lastReading[i].battery <= 1000

-----------------------------------------------------------------------------
(* C10 *)

\* x - y, exactly.
Diff(x, y) == Norm(x.h - y.h, x.m - y.m, x.l - y.l)

\* |z| <= n, for 0 <= n < Limb.
AbsAtMost(z, n) ==
    \/ z.h = 0 /\ z.m = 0 /\ z.l <= n
    \/ z.h = -1 /\ z.m = Limb - 1 /\ Limb - z.l <= n

\* c has a significand of 53 bits.
IsDouble(c) == c.l % (2^UlpExp(c)) = 0

\* c is the double b - 0.35 of double arithmetic: a double no further from
\* the exact difference than half a unit in its last place.
IsDrained(c, b) ==
    /\ IsDouble(c)
    /\ AbsAtMost(Diff(c, Diff(b, Drain)), (2^UlpExp(Diff(b, Drain))) \div 2)

\* C10: a generateTelemetry() call on a stored level b leaves the level at
\* exactly 100 (and reports 100.0) when b <= 0.35, and otherwise at b - 0.35
\* (the subtraction of doubles), which is strictly below b.
C10_UpdateRule ==
    [][ \A i \in Fleet :
          genCalls'[i] = genCalls[i] + 1 =>
            LET b == devices[i].currentBattery
                c == devices'[i].currentBattery
            IN  IF Leq(b, Drain)
                THEN c = Full /\ lastReading'[i].battery = 1000
                ELSE IsDrained(c, b) /\ ~Leq(b, c) /\ c # Full ]_vars

\* A device that began at 0 is reset by its first call and, after 285 drains,
\* again by call 287.
C10_Witness ==
    /\ genCalls[1] = 287
    /\ devices[1].currentBattery = Full
    /\ lastReading[1].battery = 1000

-----------------------------------------------------------------------------
(* C11 *)

\* The steps the program takes by itself are taken when they can be: the
\* script runs on, the listen callback runs, the interval timer expires.
\* Whether a POST ever settles is up to the collector and the network, and
\* whether /health is ever asked is up to its clients: pushData() passes
\* axios no timeout, so nothing in the program ends a POST.
SpecFair ==
    /\ Spec
    /\ WF_vars(LoadRegistry)
    /\ WF_vars(Instantiate(FleetLevels))
    /\ WF_vars(Listen)
    /\ WF_vars(StartSimulation)
    /\ WF_vars(TimerTick)

\* Every fleet index and tick of the model.
FleetIndexes == UNION {1..Len(f.entries) : f \in RegistryFiles}
TickNumbers == 1..MaxTicks

\* C11: every delivery attempt is bounded by a per-request timeout: an attempt
\* that has started eventually ends (as success or as a logged failure), also
\* when the collector never answers.
C11_AttemptsEnd ==
    \A i \in FleetIndexes : \A t \in TickNumbers :
        (\E a \in AttemptsOf(i, t) : a.promise = "pending")
            ~> (\E a \in AttemptsOf(i, t) : a.promise = "fulfilled")

-----------------------------------------------------------------------------
(* C12 *)

\* The level n successive, uninterrupted battery updates make of level b.
RECURSIVE Steps(_, _)
Steps(n, b) == IF n = 0 THEN b ELSE BatteryStep(Steps(n - 1, b))

\* C12: the generateTelemetry() calls of one device never interleave, also
\* when ticks overlap: each call works on the level the call before it left,
\* so after n calls the stored level and the payload returned last are those
\* of n updates made one after the other, and the payload of the attempt of
\* tick t is that of the t-th update.
C12_GenerateSequential ==
    \A i \in Fleet :
        /\ devices[i].currentBattery = Steps(genCalls[i], initLevel[i])
        /\ lastReading[i].status = "ok" =>
              lastReading[i].battery = ReportedBattery(Steps(genCalls[i], initLevel[i]))
        /\ \A a \in attempts :
              a.dev = i => a.battery = ReportedBattery(Steps(a.tick, initLevel[i]))

\* A device generated its second payload while its first delivery was still
\* in flight.
C12_Witness ==
    \E i \in Fleet :
        /\ genCalls[i] = 2
        /\ devices[i].currentBattery # Full
        /\ \E a \in AttemptsOf(i, 1) : a.promise = "pending"
        /\ \E a \in AttemptsOf(i, 2) : a.promise = "pending"

-----------------------------------------------------------------------------
(* C13 *)

\* C13: when the registry file is missing or cannot be parsed, the process
\* never builds a Fleet, never serves /health and never runs a tick or a
\* delivery attempt: it ends in the load.
C13_ConfigErrorFatal ==
    registryFile.kind # "ok" =>
        /\ pc \in {"load", "crashed"}
        /\ deviceConfigs = << >>
        /\ devices = << >>
        /\ ~timerArmed
        /\ ticks = 0
        /\ attempts = {}
        /\ healthResp = NoHealth

\* The process has ended on an unparseable registry.
C13_Witness == pc = "crashed" /\ registryFile.kind = "unparseable"

-----------------------------------------------------------------------------
(* C14 *)

\* C14: every answer of GET /health has status "running" and activeDevices
\* equal to the size of the Fleet, which is the number of registry entries
\* with a credential; the query can be answered in every running state,
\* whatever has failed or is in flight, and answering it changes nothing but
\* the answer.
C14_HealthReport ==
    /\ [](healthResp # NoHealth =>
             /\ healthResp.status = "running"
             /\ healthResp.activeDevices = Len(devices)
             /\ healthResp.activeDevices = Len(WithCredential(registryFile.entries)))
    /\ [](pc = "running" => ENABLED Health)
    /\ [][ healthResp' # healthResp =>
             UNCHANGED << registryFile, env, pc, deviceConfigs, cursor, devices, warned,
                          timerArmed, ticks, expiries, pushCalls, genCalls,
                          lastReading, attempts, initLevel >> ]_vars

\* Two active devices, a failed delivery and one in flight: /health has
\* answered { status: "running", activeDevices: 2 }.
C14_Witness ==
    /\ healthResp = [status |-> "running", activeDevices |-> 2]
    /\ \E a \in attempts : a.log = "error"
    /\ \E a \in attempts : a.promise = "pending"

-----------------------------------------------------------------------------
(* C15 *)

\* C15: no retry.  A device has made exactly as many POSTs as pushData()
\* calls, at most one per tick; a step that is not a tick sends nothing; an
\* attempt logged as failed stays as it is; the Fleet keeps the failing
\* device; and the next attempt of every device is the one the next tick
\* makes, with the payload generated in that tick.
C15_NoRetry ==
    /\ [](\A i \in Fleet :
             /\ Cardinality({a \in attempts : a.dev = i}) = pushCalls[i]
             /\ \A t \in 1..ticks : Cardinality(AttemptsOf(i, t)) <= 1)
    /\ [][ /\ ticks' = ticks =>
                {<< a.dev, a.tick >> : a \in attempts'} = {<< a.dev, a.tick >> : a \in attempts}
           /\ \A a \in attempts : a.log = "error" => a \in attempts'
           /\ Constructed => Members' = Members
           /\ ticks' = ticks + 1 =>
                \A i \in 1..Len(devices') :
                    /\ genCalls'[i] = genCalls[i] + 1
                    /\ \E a \in attempts' \ attempts :
                          /\ a.dev = i
                          /\ a.tick = ticks'
                          /\ a.battery = lastReading'[i].battery ]_vars

\* The first delivery of a device failed; the device is still in the Fleet
\* and the second tick has sent a newly generated payload for it.
C15_Witness ==
    /\ ticks = 2
    /\ \E a \in AttemptsOf(1, 1) : \E b \in AttemptsOf(1, 2) :
          /\ a.log = "error"
          /\ b.battery # a.battery
          /\ b.deviceId = devices[1].config.deviceId

-----------------------------------------------------------------------------
(* C16 *)

\* C16: the battery drains per tick, whatever becomes of the deliveries.
\* After t ticks every device has made t pushData() calls, each with one
\* generateTelemetry() call, and holds its initial level with exactly t
\* updates applied; the payload a tick posts is that of the level already
\* updated; and a step that is not a tick leaves every level alone.
C16_DrainPerTick ==
    /\ [](\A i \in Fleet :
             /\ pushCalls[i] = ticks
             /\ genCalls[i] = pushCalls[i]
             /\ devices[i].currentBattery = Steps(ticks, initLevel[i]))
    /\ [][ /\ ticks' = ticks =>
                \A i \in Fleet : devices'[i].currentBattery = devices[i].currentBattery
           /\ ticks' = ticks + 1 =>
                \A a \in attempts' \ attempts :
                    a.battery = ReportedBattery(devices'[a.dev].currentBattery) ]_vars

\* After two ticks one device has a failed and a pending delivery, another a
\* successful one, and both hold the level of two updates.
C16_Witness ==
    /\ ticks = 2
    /\ Len(devices) >= 2
    /\ \E a \in AttemptsOf(1, 1) : a.log = "error"
    /\ \E a \in AttemptsOf(1, 2) : a.promise = "pending"
    /\ \E a \in AttemptsOf(2, 1) : a.log = "sent"
    /\ devices[1].currentBattery = Steps(2, initLevel[1])
    /\ devices[1].currentBattery # initLevel[1]

-----------------------------------------------------------------------------
(* C17 *)

\* C17: every POST carries the identity and the credential of the device that
\* made it: the payload's deviceId is the device's own id, the x-device-token
\* header is the value of TOKEN_DEVICE_<id> for that id, and it is the token
\* of no device with another id, however many attempts are in flight.
C17_OwnIdentityAndToken ==
    \A a \in attempts :
        /\ a.dev \in Fleet
        /\ a.deviceId = devices[a.dev].config.deviceId
        /\ Resolved(a.deviceId)
        /\ a.header = env[a.deviceId].value
        /\ \A j \in Fleet :
              devices[j].config.deviceId # a.deviceId => devices[j].token # a.header

\* Attempts of different devices and ticks are in flight together, each with
\* its own token.
C17_Witness ==
    /\ Len(devices) = 3
    /\ \E a \in AttemptsOf(1, 1) : \E b \in AttemptsOf(3, 2) :
          /\ a.promise = "pending"
          /\ b.promise = "pending"
          /\ a.header # b.header
          /\ a.deviceId # b.deviceId

-----------------------------------------------------------------------------
(* C18 *)

\* C18 as stated: for every integer id N, baseTemp = 20 + (N mod 10) and
\* baseHum = 40 + (N mod 15), mod being the non-negative remainder.
C18_BaseValuesByModulus ==
    \A i \in Fleet :
        LET N == devices[i].config.deviceId
        IN  /\ devices[i].baseTemp = 20 + (N % 10)
            /\ devices[i].baseHum = 40 + (N % 15)

\* C18: for an id N >= 0, baseTemp = 20 + (N mod 10) and baseHum =
\* 40 + (N mod 15); for N < 0 the remainder keeps the sign of N, so that
\* baseTemp = 20 - (-N mod 10) and baseHum = 40 - (-N mod 15).  Two devices
\* constructed with the same N have the same base values whatever their
\* battery levels, and no generateTelemetry() call changes a base value.
C18_BaseValues ==
    /\ [](\A i \in Fleet :
            LET N == devices[i].config.deviceId
            IN  /\ N >= 0 => /\ devices[i].baseTemp = 20 + (N % 10)
                             /\ devices[i].baseHum = 40 + (N % 15)
                /\ N < 0 => /\ devices[i].baseTemp = 20 - ((-N) % 10)
                            /\ devices[i].baseHum = 40 - ((-N) % 15)
                /\ \A j \in Fleet :
                      devices[j].config.deviceId = N =>
                          /\ devices[j].baseTemp = devices[i].baseTemp
                          /\ devices[j].baseHum = devices[i].baseHum)
    /\ [][\A i \in Fleet :
            /\ devices'[i].baseTemp = devices[i].baseTemp
            /\ devices'[i].baseHum = devices[i].baseHum]_vars

\* Two devices with the same negative id, whose remainders are not zero, drawn
\* different levels, each after generateTelemetry() calls.
C18_Witness ==
    /\ Len(devices) = 2
    /\ devices[1].config.deviceId = -7
    /\ devices[2].config.deviceId = -7
    /\ devices[1].baseTemp = 13
    /\ devices[1].baseHum = 33
    /\ initLevel[1] # initLevel[2]
    /\ genCalls[1] = MaxGen
    /\ genCalls[2] >= 1

-----------------------------------------------------------------------------
(* C19 *)

\* The integer level k the constructor drew for device i (k is stored as k * 2^54).
DrawnLevel(i) == initLevel[i].h \div (2^14)

\* The first call n >= 1 with 0.35 * n >= k, in exact arithmetic.
FirstReset(k) == IF k = 0 THEN 1 ELSE (100 * k + 34) \div 35

\* 0.25
Quarter == [h |-> 2^12, m |-> 0, l |-> 0]

\* C19: a device that drew the integer level k is reset to 100, and reports
\* 100.0, by exactly the calls FirstReset(k), FirstReset(k) + 286,
\* FirstReset(k) + 572, ..., and the call before each later reset leaves the
\* level at 0.25 (to within rounding).
C19_FixedCycle ==
    \A i \in Fleet :
        LET n == genCalls[i]
            first == FirstReset(DrawnLevel(i))
            resets == n >= first /\ (n - first) % 286 = 0
            lowest == n > first /\ (n - first) % 286 = 285
        IN  n >= 1 =>
              /\ (devices[i].currentBattery = Full) <=> resets
              /\ (lastReading[i].battery = 1000) <=> resets
              /\ lowest => AbsAtMost(Diff(devices[i].currentBattery, Quarter), Limb)

-----------------------------------------------------------------------------
(* C20 *)

\* C20: device states are independent.  A step changes the state of a device
\* only by a generateTelemetry() call of that device (directly or in its
\* pushData()), and then only its currentBattery: no step changes a device's
\* config, token, baseTemp or baseHum; a step in which a POST settles, with
\* whatever outcome, changes no device at all; and each device's level is the
\* one its own number of calls gives from its own initial level, whatever the
\* other device has done.
C20_DevicesIndependent ==
    /\ [](\A i \in Fleet :
            devices[i].currentBattery = Steps(genCalls[i], initLevel[i]))
    /\ [][ /\ Len(devices') = Len(devices)
           /\ \A i \in Fleet :
                /\ devices'[i].config = devices[i].config
                /\ devices'[i].token = devices[i].token
                /\ devices'[i].baseTemp = devices[i].baseTemp
                /\ devices'[i].baseHum = devices[i].baseHum
                /\ genCalls'[i] = genCalls[i] => devices'[i] = devices[i]
           /\ (\E a \in Pending : a \notin attempts') => devices' = devices ]_vars

\* Device 1 has pushed twice, once accepted and once refused, and device 2,
\* which drew another level, has not been called and holds its initial level.
C20_Witness ==
    /\ Len(devices) = 2
    /\ initLevel[1] # initLevel[2]
    /\ genCalls = << 2, 0 >>
    /\ devices[2].currentBattery = initLevel[2]
    /\ devices[1].currentBattery # initLevel[1]
    /\ \E a \in AttemptsOf(1, 1) : a.log = "sent"
    /\ \E a \in AttemptsOf(1, 2) : a.log = "error"

=============================================================================
